---- MODULE Spec2Model ----
(***************************************************************************)
(* Sansad RAG pipeline: the ingest service (backend/ingest_service.py) and *)
(* the question loop (backend/rag_pipeline.py).                            *)
(*                                                                         *)
(* PDF bytes are a record [body, len]: the content and its length in       *)
(* bytes.  A storage name                                                  *)
(* f"{int(time.time())}_{uuid4().hex[:8]}.pdf" is the pair <<second, r>>,  *)
(* a chunk file name f"{fname}.chunk{i}.txt" is the pair <<fname, i>>.     *)
(***************************************************************************)
EXTENDS Integers, Sequences, FiniteSets, TLC

\* ------------------------------------------------------------------ bounds
MaxCalls == 3
MaxTime == 1
NumRand == 2

\* the two callers
Procs == {1, 2}
Rand == 1..NumRand

\* --------------------------------------------------------------- constants
MAX_PDF_SIZE_MB == 25
MaxPdfBytes == MAX_PDF_SIZE_MB * 1024 * 1024
OcrMinChars == 100
LangMinChars == 30
PreviewChars == 2000
DefaultTargetWords == 400
DefaultOverlapPct == 20

Whitespace == {" ", "\n", "\t"}

\* ------------------------------------------------------- string primitives
Min2(a, b) == IF a < b THEN a ELSE b

\* s[k-1], the k-th character
At(s, k) == SubSeq(s, k, k)

\* str.strip(): drop leading and trailing whitespace
strip(s) ==
  IF \A k \in 1..Len(s) : At(s, k) \in Whitespace THEN ""
  ELSE LET first == CHOOSE k \in 1..Len(s) :
                      At(s, k) \notin Whitespace
                      /\ \A j \in 1..(k-1) : At(s, j) \in Whitespace
           last == CHOOSE k \in 1..Len(s) :
                      At(s, k) \notin Whitespace
                      /\ \A j \in (k+1)..Len(s) : At(s, j) \in Whitespace
       IN SubSeq(s, first, last)

\* str.split(): the maximal runs of non-whitespace of s[lo..hi], in order
RECURSIVE splitRange(_, _, _)
splitRange(s, lo, hi) ==
  IF lo > hi THEN <<>>
  ELSE IF lo = hi THEN (IF At(s, lo) \in Whitespace THEN <<>> ELSE << At(s, lo) >>)
  ELSE LET mid == (lo + hi) \div 2
           L == splitRange(s, lo, mid)
           R == splitRange(s, mid + 1, hi)
       IN IF At(s, mid) \notin Whitespace /\ At(s, mid + 1) \notin Whitespace
          THEN SubSeq(L, 1, Len(L) - 1) \o << L[Len(L)] \o R[1] >> \o SubSeq(R, 2, Len(R))
          ELSE L \o R

split(s) == splitRange(s, 1, Len(s))

\* sep.join(parts[lo..hi])
RECURSIVE joinRange(_, _, _, _)
joinRange(sep, parts, lo, hi) ==
  IF lo > hi THEN ""
  ELSE IF lo = hi THEN parts[lo]
  ELSE LET mid == (lo + hi) \div 2
       IN joinRange(sep, parts, lo, mid) \o sep \o joinRange(sep, parts, mid + 1, hi)

join(sep, parts) == joinRange(sep, parts, 1, Len(parts))

\* s[:n]
Prefix(s, n) == SubSeq(s, 1, Min2(n, Len(s)))

\* ------------------------------------------------------------------ chunker
\* the (target_words, overlap) pairs of this model for which the double
\* target_words * (1 - overlap) lies just below the whole number that the
\* exact product is, e.g. 10 * (1 - 0.9) = 0.9999999999999998
FloatShort == { <<5, 80>>, <<10, 80>>, <<10, 90>>, <<400, 80>>, <<400, 90>> }

\* int(target_words * (1 - overlap)): the product in doubles, truncated
\* toward zero; overlap is given in percent
IntOfProduct(target_words, overlapPct) ==
  LET num == target_words * (100 - overlapPct)
  IN IF num >= 0
     THEN (num \div 100) - (IF <<target_words, overlapPct>> \in FloatShort THEN 1 ELSE 0)
     ELSE -((-num) \div 100)

\* variant: a step of 0 is kept
StepOfNoFloor(target_words, overlapPct) == IntOfProduct(target_words, overlapPct)

\* int(target_words * (1 - overlap)) or target_words
StepOf(target_words, overlapPct) ==
  LET raw == IntOfProduct(target_words, overlapPct)
  IN IF raw = 0 THEN target_words ELSE raw

\* words[i:i + target_words]
Window(words, target_words, off) ==
  SubSeq(words, off + 1, Min2(off + target_words, Len(words)))

\* variant: the loop also stops once a window has reached the last word
RECURSIVE ChunkLoopStopAtEnd(_, _, _, _)
ChunkLoopStopAtEnd(words, target_words, step, off) ==
  IF off < Len(words)
  THEN << join(" ", Window(words, target_words, off)) >>
       \o (IF off + target_words >= Len(words) THEN <<>>
           ELSE ChunkLoopStopAtEnd(words, target_words, step, off + step))
  ELSE <<>>

\* the while loop of chunk_text from word offset off
RECURSIVE ChunkLoop(_, _, _, _)
ChunkLoop(words, target_words, step, off) ==
  IF off < Len(words)
  THEN << join(" ", Window(words, target_words, off)) >>
       \o ChunkLoop(words, target_words, step, off + step)
  ELSE <<>>

chunk_text(txt, target_words, overlapPct) ==
  IF txt = "" THEN <<>>
  ELSE ChunkLoop(split(txt), target_words, StepOf(target_words, overlapPct), 0)

\* ---------------------------------------------------------------- documents
\* n one-letter words separated by single spaces
WordsPage(n) == join(" ", [k \in 1..n |-> IF k % 2 = 1 THEN "a" ELSE "b"])

\* pdfplumber.open succeeds on the bytes
Readable(body) == body # "junk"

\* page.extract_text() of each page: a text, or None for a page without a text layer
TextPage(t) == [none |-> FALSE, text |-> t]
NonePage == [none |-> TRUE, text |-> ""]

PagesOf(body) ==
  CASE body = "debate" -> << TextPage(WordsPage(433)), TextPage(WordsPage(433)),
                             TextPage(WordsPage(434)) >>
    [] body = "atlas"  -> << TextPage(WordsPage(50)) >>
    [] body = "memo"   -> << TextPage(WordsPage(49) \o " bc") >>
    [] body = "notice" -> << TextPage(" a bc\n") >>
    [] body = "scan"   -> << NonePage, NonePage >>
    [] OTHER           -> << >>

\* reader.metadata or {}
RawMeta(body) == IF body = "debate" THEN ("/Title" :> "Debate") ELSE <<>>

\* the byte strings callers submit
Uploads == { [body |-> "debate", len |-> 90000],
             [body |-> "notice", len |-> 700],
             [body |-> "scan",   len |-> 52000],
             [body |-> "junk",   len |-> 12],
             [body |-> "memo",   len |-> 4100],
             [body |-> "atlas",  len |-> MaxPdfBytes],
             [body |-> "tome",   len |-> MaxPdfBytes + 1] }

Sources == {"None", "rajya_sabha"}

\* what callers submit while several workers run at once
SharedUploads == { [body |-> "notice", len |-> 700],
                   [body |-> "scan",   len |-> 52000] }
SharedSources == {"None"}

\* what langdetect.detect may do on a text: a label, or an exception
DetectOutcomes == {"en", "hi", "fr", "raise"}

\* hashlib.sha256(b).hexdigest(): a function of the bytes alone, taken to be
\* collision free
sha256_bytes(b) == <<"sha256", b.body, b.len>>

extract_text_and_meta(b) ==
  IF Readable(b.body)
  THEN LET raw == PagesOf(b.body)
           pages == [k \in 1..Len(raw) |-> IF raw[k].none THEN "" ELSE raw[k].text]
       IN [text |-> strip(join("\n\n", pages)), meta |-> RawMeta(b.body)]
  ELSE [text |-> "", meta |-> <<>>]

\* extract_text_and_meta and chunk_text with the default parameters, tabulated
\* over the uploads
Extracted == [u \in Uploads |-> extract_text_and_meta(u)]
DefaultChunks == [t \in {Extracted[u].text : u \in Uploads} |->
                    chunk_text(t, DefaultTargetWords, DefaultOverlapPct)]

\* -------------------------------------------------------------------- state
VARIABLES
  workers,      \* "one": a single event loop runs the calls one after another;
                \* "many": several worker processes share the data directory
  now,          \* int(time.time())
  indexFile,    \* data/index.json
  blobs,        \* data/pdfs: fname -> bytes
  chunkFiles,   \* data/chunks: cid -> text
  pc,           \* per caller: position in process_pdf_bytes
  pdf_bytes, source, checksum, index, fname, text, meta, needs_ocr, language,
  chunks, i,    \* its locals
  result,       \* what the call returned or raised
  calls,        \* number of calls made so far
  did,          \* what the current call has done so far
  entryBlobs,   \* data/pdfs as it was when the current call began
  entryLedger,  \* the readable ledger entries when the current call began
  lastCall      \* the most recent call that ended, and how
                \* (the last three are kept while calls run one at a time)

ingestVars == << workers, now, indexFile, blobs, chunkFiles, pc, pdf_bytes, source,
                 checksum, index, fname, text, meta, needs_ocr, language, chunks, i,
                 result, calls, did, entryBlobs, entryLedger, lastCall >>

\* the locals that extraction and chunking set
derived == << text, meta, needs_ocr, language, chunks >>

VARIABLES
  collection,        \* the ids held by the Chroma collection
  askPc,             \* position in ask_question
  asked,             \* number of questions read so far
  question,          \* the question being answered, stripped
  retrieved_chunks,  \* results["documents"][0]
  response,          \* what generate_content returned
  console,           \* what ask_question printed, in order
  history,           \* the questions read so far, stripped
  ports,             \* the calls made to the embedding model, the index and the
                     \* generative model: question number, port, outcome
  raised             \* the exception that ended ask_question, if any

ragVars == << collection, askPc, asked, question, retrieved_chunks, response, console,
              history, ports, raised >>

VARIABLES
  embPc,        \* position in ingest_pdfs
  pdf_files,    \* the files of data/pdfs that the loop has still to process
  total_chunks, \* its counter
  runs,         \* number of runs of ingest_pdfs so far
  adds          \* the ids passed to collection.add so far: run, id, and whether
                \* the collection held the id already

embedVars == << embPc, pdf_files, total_chunks, runs, adds >>

\* the state of the operations that are not part of a call of
\* process_pdf_bytes or of the question loop
VARIABLES
  chunker,      \* a call of chunk_text: its arguments, its locals words, step,
                \* i and chunks, and what the same call returned before
  fetch         \* a request to POST /ingest: the URL, the attempts made by
                \* download_pdf and how it ended

chunkerVars == << chunker >>
fetchVars == << fetch >>
sideVars == << embedVars, chunkerVars, fetchVars >>

vars == << ingestVars, ragVars, sideVars >>

\* none of these operations has begun
EmbedIdle ==
  /\ embPc = "off"
  /\ pdf_files = <<>>
  /\ total_chunks = 0
  /\ runs = 0
  /\ adds = {}

NoChunker == [pc |-> "off", text |-> "", target_words |-> 0, overlap |-> 0,
              words |-> <<>>, step |-> 0, i |-> 0, chunks |-> <<>>,
              rerun |-> FALSE, first |-> <<>>]
NoFetch == [pc |-> "off", url |-> "none", attempts |-> 0, last |-> 0]

SideIdle == EmbedIdle /\ chunker = NoChunker /\ fetch = NoFetch

\* the contents of data/index.json
NoFile == [kind |-> "absent"]
EmptyFile == [kind |-> "empty"]
GarbageFile == [kind |-> "garbage"]
JsonFile(d) == [kind |-> "json", dict |-> d]

\* the content-hash -> fname entries a reader of data/index.json finds
Ledger == IF indexFile.kind = "json" THEN indexFile.dict ELSE <<>>

NoResult == [status |-> "none"]
NoBytes == [body |-> "none", len |-> 0]
NoName == <<0, 0>>
NoHash == <<"sha256", "none", 0>>

Put(d, k, v) == [x \in (DOMAIN d) \cup {k} |-> IF x = k THEN v ELSE d[x]]


InitIngest(w) ==
  /\ workers = w
  /\ now = 0
  /\ indexFile = NoFile
  /\ blobs = <<>>
  /\ chunkFiles = <<>>
  /\ pc = [p \in Procs |-> "idle"]
  /\ pdf_bytes = [p \in Procs |-> NoBytes]
  /\ source = [p \in Procs |-> "None"]
  /\ checksum = [p \in Procs |-> NoHash]
  /\ index = [p \in Procs |-> <<>>]
  /\ fname = [p \in Procs |-> NoName]
  /\ text = [p \in Procs |-> ""]
  /\ meta = [p \in Procs |-> <<>>]
  /\ needs_ocr = [p \in Procs |-> FALSE]
  /\ language = [p \in Procs |-> "unknown"]
  /\ chunks = [p \in Procs |-> <<>>]
  /\ i = [p \in Procs |-> 0]
  /\ result = [p \in Procs |-> NoResult]
  /\ calls = 0
  /\ did = [p \in Procs |-> {}]
  /\ entryBlobs = [p \in Procs |-> <<>>]
  /\ entryLedger = [p \in Procs |-> <<>>]
  /\ lastCall = [pdf |-> NoBytes, status |-> "none", name |-> NoName]

\* the locals of a call that is over
Forget(p) ==
  /\ pdf_bytes' = [pdf_bytes EXCEPT ![p] = NoBytes]
  /\ source' = [source EXCEPT ![p] = "None"]
  /\ checksum' = [checksum EXCEPT ![p] = NoHash]
  /\ index' = [index EXCEPT ![p] = <<>>]
  /\ fname' = [fname EXCEPT ![p] = NoName]
  /\ text' = [text EXCEPT ![p] = ""]
  /\ meta' = [meta EXCEPT ![p] = <<>>]
  /\ needs_ocr' = [needs_ocr EXCEPT ![p] = FALSE]
  /\ language' = [language EXCEPT ![p] = "unknown"]
  /\ chunks' = [chunks EXCEPT ![p] = <<>>]
  /\ i' = [i EXCEPT ![p] = 0]
  /\ result' = [result EXCEPT ![p] = NoResult]
  /\ did' = [did EXCEPT ![p] = {}]
  /\ entryBlobs' = [entryBlobs EXCEPT ![p] = <<>>]
  /\ entryLedger' = [entryLedger EXCEPT ![p] = <<>>]

\* int(time.time()) moves on; only a caller about to name a blob reads it
Tick ==
  /\ now < MaxTime
  /\ \E p \in Procs : pc[p] = "check"
  /\ now' = now + 1
  /\ UNCHANGED << ragVars, sideVars >>
  /\ UNCHANGED << workers, indexFile, blobs, chunkFiles, pc, pdf_bytes, source, checksum,
                  index, fname, derived, i, result, calls, did, entryBlobs,
                  entryLedger, lastCall >>

\* an endpoint calls process_pdf_bytes(pdf_bytes, source); of the idle callers,
\* which are alike, the first takes the call
Call(p) ==
  /\ pc[p] = "idle"
  /\ \A q \in Procs : pc[q] = "idle" => p <= q
  /\ calls < MaxCalls
  /\ workers = "one" => \A q \in Procs : pc[q] = "idle"
  /\ \E b \in (IF workers = "one" THEN Uploads ELSE SharedUploads),
        s \in (IF workers = "one" THEN Sources ELSE SharedSources) :
       /\ pdf_bytes' = [pdf_bytes EXCEPT ![p] = b]
       /\ source' = [source EXCEPT ![p] = s]
  /\ pc' = [pc EXCEPT ![p] = "guard"]
  /\ calls' = calls + 1
  /\ entryBlobs' = [entryBlobs EXCEPT ![p] = IF workers = "one" THEN blobs ELSE <<>>]
  /\ entryLedger' = [entryLedger EXCEPT ![p] = IF workers = "one" THEN Ledger ELSE <<>>]
  /\ UNCHANGED << ragVars, sideVars >>
  /\ UNCHANGED << workers, now, indexFile, blobs, chunkFiles, checksum, index, fname,
                  derived, i, result, did, lastCall >>

\* variant: the guard also rejects a file of exactly the maximum size
SizeGuardInclusive(p) ==
  /\ pc[p] = "guard"
  /\ IF pdf_bytes[p].len >= MaxPdfBytes
     THEN /\ result' = [result EXCEPT ![p] = [status |-> "error", code |-> 413]]
          /\ pc' = [pc EXCEPT ![p] = "done"]
          /\ UNCHANGED << checksum, did >>
     ELSE /\ checksum' = [checksum EXCEPT ![p] = sha256_bytes(pdf_bytes[p])]
          /\ did' = [did EXCEPT ![p] = @ \cup {"hash"}]
          /\ pc' = [pc EXCEPT ![p] = "load"]
          /\ UNCHANGED result
  /\ UNCHANGED << ragVars, sideVars >>
  /\ UNCHANGED << workers, now, indexFile, blobs, chunkFiles, pdf_bytes, source, index,
                  fname, derived, i, calls, entryBlobs, entryLedger, lastCall >>

\* the size guard, then the content hash
SizeGuard(p) ==
  /\ pc[p] = "guard"
  /\ IF pdf_bytes[p].len > MaxPdfBytes
     THEN /\ result' = [result EXCEPT ![p] = [status |-> "error", code |-> 413]]
          /\ pc' = [pc EXCEPT ![p] = "done"]
          /\ UNCHANGED << checksum, did >>
     ELSE /\ checksum' = [checksum EXCEPT ![p] = sha256_bytes(pdf_bytes[p])]
          /\ did' = [did EXCEPT ![p] = @ \cup {"hash"}]
          /\ pc' = [pc EXCEPT ![p] = "load"]
          /\ UNCHANGED result
  /\ UNCHANGED << ragVars, sideVars >>
  /\ UNCHANGED << workers, now, indexFile, blobs, chunkFiles, pdf_bytes, source, index,
                  fname, derived, i, calls, entryBlobs, entryLedger, lastCall >>

\* index = load_index(); json.load raises on a file that is not JSON
LoadIndex(p) ==
  /\ pc[p] = "load"
  /\ did' = [did EXCEPT ![p] = @ \cup {"load"}]
  /\ CASE indexFile.kind = "absent" ->
            /\ index' = [index EXCEPT ![p] = <<>>]
            /\ pc' = [pc EXCEPT ![p] = "check"]
            /\ UNCHANGED result
       [] indexFile.kind = "json" ->
            /\ index' = [index EXCEPT ![p] = indexFile.dict]
            /\ pc' = [pc EXCEPT ![p] = "check"]
            /\ UNCHANGED result
       [] OTHER ->
            /\ result' = [result EXCEPT ![p] = [status |-> "error", code |-> 500]]
            /\ pc' = [pc EXCEPT ![p] = "done"]
            /\ UNCHANGED index
  /\ UNCHANGED << ragVars, sideVars >>
  /\ UNCHANGED << workers, now, indexFile, blobs, chunkFiles, pdf_bytes, source, checksum,
                  fname, derived, i, calls, entryBlobs, entryLedger, lastCall >>

\* variant: a duplicate is written to the blob area again before it is reported
DuplicateCheckRewrites(p) ==
  /\ pc[p] = "check"
  /\ IF checksum[p] \in DOMAIN index[p]
     THEN /\ result' = [result EXCEPT ![p] =
                          [status |-> "duplicate", existing_pdf |-> index[p][checksum[p]],
                           sha256 |-> checksum[p]]]
          /\ pc' = [pc EXCEPT ![p] = "done"]
          /\ blobs' = Put(blobs, index[p][checksum[p]], pdf_bytes[p])
          /\ did' = [did EXCEPT ![p] = @ \cup {"blob"}]
          /\ UNCHANGED fname
     ELSE /\ \E r \in Rand : fname' = [fname EXCEPT ![p] = <<now, r>>]
          /\ pc' = [pc EXCEPT ![p] = "blob"]
          /\ UNCHANGED << result, blobs, did >>
  /\ UNCHANGED << ragVars, sideVars >>
  /\ UNCHANGED << workers, now, indexFile, chunkFiles, pdf_bytes, source, checksum,
                  index, derived, i, calls, entryBlobs, entryLedger, lastCall >>

\* the duplicate check; a new document gets a storage name
DuplicateCheck(p) ==
  /\ pc[p] = "check"
  /\ IF checksum[p] \in DOMAIN index[p]
     THEN /\ result' = [result EXCEPT ![p] =
                          [status |-> "duplicate", existing_pdf |-> index[p][checksum[p]],
                           sha256 |-> checksum[p]]]
          /\ pc' = [pc EXCEPT ![p] = "done"]
          /\ UNCHANGED fname
     ELSE /\ \E r \in Rand : fname' = [fname EXCEPT ![p] = <<now, r>>]
          /\ pc' = [pc EXCEPT ![p] = "blob"]
          /\ UNCHANGED result
  /\ UNCHANGED << ragVars, sideVars >>
  /\ UNCHANGED << workers, now, indexFile, blobs, chunkFiles, pdf_bytes, source, checksum,
                  index, derived, i, calls, did, entryBlobs, entryLedger, lastCall >>

\* variant: the bytes are not written before the ledger is
WriteBlobSkipped(p) ==
  /\ pc[p] = "blob"
  /\ blobs' = blobs
  /\ did' = [did EXCEPT ![p] = @ \cup {"blob"}]
  /\ pc' = [pc EXCEPT ![p] = "extract"]
  /\ UNCHANGED << ragVars, sideVars >>
  /\ UNCHANGED << workers, now, indexFile, chunkFiles, pdf_bytes, source, checksum, index,
                  fname, derived, i, result, calls, entryBlobs, entryLedger, lastCall >>

\* the raw bytes are written under the new name
WriteBlob(p) ==
  /\ pc[p] = "blob"
  /\ blobs' = Put(blobs, fname[p], pdf_bytes[p])
  /\ did' = [did EXCEPT ![p] = @ \cup {"blob"}]
  /\ pc' = [pc EXCEPT ![p] = "extract"]
  /\ UNCHANGED << ragVars, sideVars >>
  /\ UNCHANGED << workers, now, indexFile, chunkFiles, pdf_bytes, source, checksum, index,
                  fname, derived, i, result, calls, entryBlobs, entryLedger, lastCall >>

\* variant: the exception of an unreadable PDF is not caught
ExtractRaises(p) ==
  /\ pc[p] = "extract"
  /\ IF Readable(pdf_bytes[p].body)
     THEN /\ LET e == Extracted[pdf_bytes[p]]
             IN /\ text' = [text EXCEPT ![p] = e.text]
                /\ meta' = [meta EXCEPT ![p] = e.meta]
                /\ needs_ocr' = [needs_ocr EXCEPT ![p] =
                                   e.text = "" \/ Len(e.text) < OcrMinChars]
                /\ IF e.text # "" /\ Len(e.text) > LangMinChars
                   THEN \E lang \in DetectOutcomes :
                          language' = [language EXCEPT ![p] =
                                         IF lang \in {"en", "hi"} THEN lang ELSE "unknown"]
                   ELSE language' = [language EXCEPT ![p] = "unknown"]
          /\ pc' = [pc EXCEPT ![p] = "chunk"]
          /\ UNCHANGED result
     ELSE /\ result' = [result EXCEPT ![p] = [status |-> "error", code |-> 500]]
          /\ pc' = [pc EXCEPT ![p] = "done"]
          /\ UNCHANGED << text, meta, needs_ocr, language >>
  /\ did' = [did EXCEPT ![p] = @ \cup {"extract"}]
  /\ UNCHANGED << ragVars, sideVars >>
  /\ UNCHANGED << workers, now, indexFile, blobs, chunkFiles, pdf_bytes, source, checksum,
                  index, fname, chunks, i, calls, entryBlobs, entryLedger, lastCall >>

\* variant: a text of exactly 100 characters is flagged for OCR as well
ExtractOcrInclusive(p) ==
  /\ pc[p] = "extract"
  /\ LET e == Extracted[pdf_bytes[p]]
     IN /\ text' = [text EXCEPT ![p] = e.text]
        /\ meta' = [meta EXCEPT ![p] = e.meta]
        /\ needs_ocr' = [needs_ocr EXCEPT ![p] = e.text = "" \/ Len(e.text) <= OcrMinChars]
        /\ IF e.text # "" /\ Len(e.text) > LangMinChars
           THEN \E lang \in DetectOutcomes :
                  language' = [language EXCEPT ![p] =
                                 IF lang \in {"en", "hi"} THEN lang ELSE "unknown"]
           ELSE language' = [language EXCEPT ![p] = "unknown"]
  /\ did' = [did EXCEPT ![p] = @ \cup {"extract"}]
  /\ pc' = [pc EXCEPT ![p] = "chunk"]
  /\ UNCHANGED << ragVars, sideVars >>
  /\ UNCHANGED << workers, now, indexFile, blobs, chunkFiles, pdf_bytes, source, checksum,
                  index, fname, chunks, i, result, calls, entryBlobs, entryLedger,
                  lastCall >>

\* text, meta = extract_text_and_meta(pdf_bytes); the OCR flag; language detection
Extract(p) ==
  /\ pc[p] = "extract"
  /\ LET e == Extracted[pdf_bytes[p]]
     IN /\ text' = [text EXCEPT ![p] = e.text]
        /\ meta' = [meta EXCEPT ![p] = e.meta]
        /\ needs_ocr' = [needs_ocr EXCEPT ![p] = e.text = "" \/ Len(e.text) < OcrMinChars]
        /\ IF e.text # "" /\ Len(e.text) > LangMinChars
           THEN \E lang \in DetectOutcomes :
                  language' = [language EXCEPT ![p] =
                                 IF lang \in {"en", "hi"} THEN lang ELSE "unknown"]
           ELSE language' = [language EXCEPT ![p] = "unknown"]
  /\ did' = [did EXCEPT ![p] = @ \cup {"extract"}]
  /\ pc' = [pc EXCEPT ![p] = "chunk"]
  /\ UNCHANGED << ragVars, sideVars >>
  /\ UNCHANGED << workers, now, indexFile, blobs, chunkFiles, pdf_bytes, source, checksum,
                  index, fname, chunks, i, result, calls, entryBlobs, entryLedger,
                  lastCall >>

\* chunks = chunk_text(text); chunk_ids = []
Chunk(p) ==
  /\ pc[p] = "chunk"
  /\ LET c == DefaultChunks[text[p]]
     IN /\ chunks' = [chunks EXCEPT ![p] = c]
        /\ pc' = [pc EXCEPT ![p] = IF Len(c) > 0 THEN "chunks" ELSE "save"]
  /\ i' = [i EXCEPT ![p] = 0]
  /\ UNCHANGED << ragVars, sideVars >>
  /\ UNCHANGED << workers, now, indexFile, blobs, chunkFiles, pdf_bytes, source, checksum,
                  index, fname, text, meta, needs_ocr, language, result, calls, did,
                  entryBlobs, entryLedger, lastCall >>

\* variant: the previews are written under ordinals that start at 1
WriteChunkOneBased(p) ==
  /\ pc[p] = "chunks"
  /\ i[p] < Len(chunks[p])
  /\ chunkFiles' = Put(chunkFiles, <<fname[p], i[p] + 1>>,
                       Prefix(chunks[p][i[p] + 1], PreviewChars))
  /\ i' = [i EXCEPT ![p] = @ + 1]
  /\ did' = [did EXCEPT ![p] = @ \cup {"chunk"}]
  /\ pc' = [pc EXCEPT ![p] = IF i[p] + 1 < Len(chunks[p]) THEN "chunks" ELSE "save"]
  /\ UNCHANGED << ragVars, sideVars >>
  /\ UNCHANGED << workers, now, indexFile, blobs, pdf_bytes, source, checksum, index,
                  fname, derived, result, calls, entryBlobs, entryLedger, lastCall >>

\* one iteration of the loop that writes the chunk previews
WriteChunk(p) ==
  /\ pc[p] = "chunks"
  /\ i[p] < Len(chunks[p])
  /\ chunkFiles' = Put(chunkFiles, <<fname[p], i[p]>>,
                       Prefix(chunks[p][i[p] + 1], PreviewChars))
  /\ i' = [i EXCEPT ![p] = @ + 1]
  /\ did' = [did EXCEPT ![p] = @ \cup {"chunk"}]
  /\ pc' = [pc EXCEPT ![p] = IF i[p] + 1 < Len(chunks[p]) THEN "chunks" ELSE "save"]
  /\ UNCHANGED << ragVars, sideVars >>
  /\ UNCHANGED << workers, now, indexFile, blobs, pdf_bytes, source, checksum, index,
                  fname, derived, result, calls, entryBlobs, entryLedger, lastCall >>

\* variant: the new entry is not put into the index before it is saved
SaveIndexOpenNoEntry(p) ==
  /\ pc[p] = "save"
  /\ index' = index
  /\ indexFile' = EmptyFile
  /\ pc' = [pc EXCEPT ![p] = "dump"]
  /\ UNCHANGED << ragVars, sideVars >>
  /\ UNCHANGED << workers, now, blobs, chunkFiles, pdf_bytes, source, checksum, fname,
                  derived, i, result, calls, did, entryBlobs, entryLedger, lastCall >>

\* index[checksum] = fname; save_index opens data/index.json for writing,
\* which empties it
SaveIndexOpen(p) ==
  /\ pc[p] = "save"
  /\ index' = [index EXCEPT ![p] = Put(@, checksum[p], fname[p])]
  /\ indexFile' = EmptyFile
  /\ pc' = [pc EXCEPT ![p] = "dump"]
  /\ UNCHANGED << ragVars, sideVars >>
  /\ UNCHANGED << workers, now, blobs, chunkFiles, pdf_bytes, source, checksum, fname,
                  derived, i, result, calls, did, entryBlobs, entryLedger, lastCall >>

\* what data/index.json holds after a writer that opened it earlier writes d
\* from offset 0: d, unless a longer text was written meanwhile by another
\* writer, whose tail then follows d
DumpOutcomes(file, d) ==
  CASE file.kind = "json" ->
         IF Cardinality(DOMAIN d) >= Cardinality(DOMAIN file.dict)
         THEN {JsonFile(d)} ELSE {GarbageFile}
    [] file.kind = "garbage" -> {JsonFile(d), GarbageFile}
    [] OTHER -> {JsonFile(d)}

\* the summary of a new document
Summary(p) ==
  [status |-> "ingested",
   pdf_filename |-> fname[p],
   pdf_path |-> <<"data", "pdfs", fname[p]>>,
   sha256 |-> checksum[p],
   source |-> IF source[p] = "None" THEN "" ELSE source[p],
   language |-> language[p],
   needs_ocr |-> needs_ocr[p],
   next_step |-> IF needs_ocr[p] THEN "ocr_required" ELSE "ready_for_embedding",
   num_chunks |-> Len(chunks[p]),
   chunk_ids |-> [k \in 1..Len(chunks[p]) |-> <<fname[p], k - 1>>],
   meta |-> meta[p]]

\* json.dump(index, f) and the close of the file; the summary is returned
SaveIndexDump(p) ==
  /\ pc[p] = "dump"
  /\ indexFile' \in DumpOutcomes(indexFile, index[p])
  /\ did' = [did EXCEPT ![p] = @ \cup {"save"}]
  /\ result' = [result EXCEPT ![p] = Summary(p)]
  /\ pc' = [pc EXCEPT ![p] = "done"]
  /\ UNCHANGED << ragVars, sideVars >>
  /\ UNCHANGED << workers, now, blobs, chunkFiles, pdf_bytes, source, checksum, index,
                  fname, derived, i, calls, entryBlobs, entryLedger, lastCall >>

\* the caller has its response
Return(p) ==
  /\ pc[p] = "done"
  /\ lastCall' = IF workers = "one"
                 THEN [pdf |-> pdf_bytes[p], status |-> result[p].status,
                       name |-> CASE result[p].status = "ingested" -> result[p].pdf_filename
                                  [] result[p].status = "duplicate" -> result[p].existing_pdf
                                  [] OTHER -> NoName]
                 ELSE lastCall
  /\ pc' = [pc EXCEPT ![p] = "idle"]
  /\ Forget(p)
  /\ UNCHANGED << ragVars, sideVars >>
  /\ UNCHANGED << workers, now, indexFile, blobs, chunkFiles, calls >>

\* the process serving the call is killed
Crash(p) ==
  /\ pc[p] \notin {"idle", "done"}
  /\ lastCall' = IF workers = "one"
                 THEN [pdf |-> pdf_bytes[p], status |-> "crashed", name |-> NoName]
                 ELSE lastCall
  /\ pc' = [pc EXCEPT ![p] = "idle"]
  /\ Forget(p)
  /\ UNCHANGED << ragVars, sideVars >>
  /\ UNCHANGED << workers, now, indexFile, blobs, chunkFiles, calls >>

\* ------------------------------------------------------------ question loop
MaxIndexed == 3
MaxQuestions == 2
NResults == 5

\* what the user may type at the prompt
Inputs == { "", " \t", "who", " why ", "exit", " ExiT\n" }

\* str.lower()
LowerChar(c) ==
  CASE c = "E" -> "e" [] c = "X" -> "x" [] c = "I" -> "i" [] c = "T" -> "t" [] OTHER -> c
RECURSIVE lower(_)
lower(s) == IF s = "" THEN "" ELSE LowerChar(At(s, 1)) \o lower(SubSeq(s, 2, Len(s)))

IsExit(raw) == lower(strip(raw)) = "exit"

\* what gemini_model.generate_content(prompt) may do: return a response with
\* text, return a response whose .text raises (no usable candidate), or raise
\* (timeout, quota)
GenOutcomes == {"text", "no_text", "raise"}

RagIdle ==
  /\ collection = {}
  /\ askPc = "off"
  /\ asked = 0
  /\ question = ""
  /\ retrieved_chunks = {}
  /\ response = "none"
  /\ console = <<>>
  /\ history = <<>>
  /\ ports = {}
  /\ raised = "none"

\* ask_question is chosen at the menu, over whatever the collection holds
InitAsk ==
  /\ InitIngest("one")
  /\ SideIdle
  /\ \E n \in 0..MaxIndexed : collection = 1..n
  /\ askPc = "start"
  /\ asked = 0
  /\ question = ""
  /\ retrieved_chunks = {}
  /\ response = "none"
  /\ console = <<>>
  /\ history = <<>>
  /\ ports = {}
  /\ raised = "none"

\* count = collection.count(); an empty collection ends ask_question
AskStart ==
  /\ askPc = "start"
  /\ IF Cardinality(collection) = 0
     THEN /\ console' = Append(console, [n |-> 0, line |-> "no_data"])
          /\ askPc' = "ended"
     ELSE /\ askPc' = "input"
          /\ UNCHANGED console
  /\ UNCHANGED << collection, asked, question, retrieved_chunks, response, history, ports,
                  raised >>
  /\ UNCHANGED << ingestVars, sideVars >>

\* question = input(...).strip(); "exit" leaves the loop
ReadQuestion ==
  /\ askPc = "input"
  /\ \E raw \in Inputs :
       /\ asked < MaxQuestions \/ IsExit(raw)
       /\ question' = strip(raw)
       /\ askPc' = IF IsExit(raw) THEN "ended" ELSE "embed"
       /\ asked' = IF IsExit(raw) THEN asked ELSE asked + 1
       /\ history' = IF IsExit(raw) THEN history ELSE Append(history, strip(raw))
  /\ UNCHANGED << collection, retrieved_chunks, response, console, ports, raised >>
  /\ UNCHANGED << ingestVars, sideVars >>

\* query_embedding = embed_text(question)
EmbedQuestion ==
  /\ askPc = "embed"
  /\ ports' = ports \cup {[n |-> asked, port |-> "embed", out |-> "vector"]}
  /\ askPc' = "query"
  /\ UNCHANGED << collection, asked, question, retrieved_chunks, response, console, history,
                  raised >>
  /\ UNCHANGED << ingestVars, sideVars >>

\* variant: the retrieved documents are not tested for emptiness
QueryIndexUnchecked ==
  /\ askPc = "query"
  /\ \E R \in SUBSET collection :
       /\ Cardinality(R) <= NResults
       /\ retrieved_chunks' = R
       /\ ports' = ports \cup {[n |-> asked, port |-> "query",
                                out |-> IF R = {} THEN "nothing" ELSE "documents"]}
       /\ IF FALSE
          THEN /\ console' = Append(console, [n |-> asked, line |-> "no_context"])
               /\ askPc' = "input"
          ELSE /\ askPc' = "generate"
               /\ UNCHANGED console
  /\ UNCHANGED << collection, asked, question, response, history, raised >>
  /\ UNCHANGED << ingestVars, sideVars >>

\* collection.query(..., n_results=5) and the test on its documents
QueryIndex ==
  /\ askPc = "query"
  /\ \E R \in SUBSET collection :
       /\ Cardinality(R) <= NResults
       /\ retrieved_chunks' = R
       /\ ports' = ports \cup {[n |-> asked, port |-> "query",
                                out |-> IF R = {} THEN "nothing" ELSE "documents"]}
       /\ IF R = {}
          THEN /\ console' = Append(console, [n |-> asked, line |-> "no_context"])
               /\ askPc' = "input"
          ELSE /\ askPc' = "generate"
               /\ UNCHANGED console
  /\ UNCHANGED << collection, asked, question, response, history, raised >>
  /\ UNCHANGED << ingestVars, sideVars >>

\* variant: an exception of generate_content is caught and the loop goes on
GenerateSwallows ==
  /\ askPc = "generate"
  /\ \E o \in GenOutcomes :
       /\ ports' = ports \cup {[n |-> asked, port |-> "generate", out |-> o]}
       /\ IF o = "raise"
          THEN /\ askPc' = "input"
               /\ UNCHANGED << response, raised >>
          ELSE /\ response' = o
               /\ askPc' = "print"
               /\ UNCHANGED raised
  /\ UNCHANGED << collection, asked, question, retrieved_chunks, console, history >>
  /\ UNCHANGED << ingestVars, sideVars >>

\* the prompt is built and response = gemini_model.generate_content(prompt)
Generate ==
  /\ askPc = "generate"
  /\ \E o \in GenOutcomes :
       /\ ports' = ports \cup {[n |-> asked, port |-> "generate", out |-> o]}
       /\ IF o = "raise"
          THEN /\ raised' = "generate_content"
               /\ askPc' = "failed"
               /\ UNCHANGED response
          ELSE /\ response' = o
               /\ askPc' = "print"
               /\ UNCHANGED raised
  /\ UNCHANGED << collection, asked, question, retrieved_chunks, console, history >>
  /\ UNCHANGED << ingestVars, sideVars >>

\* print("Answer:") and print(response.text)
PrintAnswer ==
  /\ askPc = "print"
  /\ IF response = "text"
     THEN /\ console' = console \o << [n |-> asked, line |-> "answer_header"],
                                      [n |-> asked, line |-> "answer"] >>
          /\ askPc' = "input"
          /\ UNCHANGED raised
     ELSE /\ console' = Append(console, [n |-> asked, line |-> "answer_header"])
          /\ raised' = "response.text"
          /\ askPc' = "failed"
  /\ response' = "none"
  /\ UNCHANGED << collection, asked, question, retrieved_chunks, history, ports >>
  /\ UNCHANGED << ingestVars, sideVars >>

\* ------------------------------------------------- embedding into the index
MaxRuns == 2
MaxFiles == 2
ChunkSize == 1200

\* read_pdf_text: the text of every page that has one, each followed by a
\* newline, stripped
RECURSIVE PagesText(_, _)
PagesText(raw, k) ==
  IF k > Len(raw) THEN ""
  ELSE (IF raw[k].none \/ raw[k].text = "" THEN "" ELSE raw[k].text \o "\n")
       \o PagesText(raw, k + 1)

read_pdf_text(b) == strip(PagesText(PagesOf(b.body), 1))

\* textwrap.wrap(txt, width) for a text whose words are separated by single
\* whitespace characters and are shorter than width: each line takes as many
\* of the remaining words as fit, joined by single spaces
RECURSIVE wrapFrom(_, _, _)
wrapFrom(words, from, width) ==
  IF from > Len(words) THEN <<>>
  ELSE LET last == CHOOSE k \in from..Len(words) :
                     /\ Len(joinRange(" ", words, from, k)) <= width
                     /\ k < Len(words) =>
                          Len(joinRange(" ", words, from, k + 1)) > width
       IN << joinRange(" ", words, from, last) >> \o wrapFrom(words, last + 1, width)

wrap(txt, width) == wrapFrom(split(txt), 1, width)

\* chunk_text of rag_pipeline.py
rag_chunk_text(txt, chunk_size) == wrap(txt, chunk_size)

\* the documents that data/pdfs may hold when ingest_pdfs runs
ShelfUploads == {u \in Uploads : u.len <= MaxPdfBytes}

\* read_pdf_text and chunk_text with the default chunk size, tabulated
ShelfText == [u \in ShelfUploads |->
                IF Readable(u.body) THEN read_pdf_text(u) ELSE ""]
ShelfChunks == [u \in ShelfUploads |->
                  IF ShelfText[u] = "" THEN <<>>
                  ELSE rag_chunk_text(ShelfText[u], ChunkSize)]

\* what collection.add may do with an id the collection already holds,
\* depending on the chromadb release: leave the old entry and skip the new
\* one, raise, or store a second entry under the same id
AddOutcomes == {"skipped", "raise", "stored_again"}

\* the ids of the entries the collection holds
IndexedIds == {e.id : e \in collection}

\* every order os.listdir may give the names
Orders(S) == {q \in [1..Cardinality(S) -> S] : \A a, b \in 1..Cardinality(S) :
                                                  a # b => q[a] # q[b]}

\* option 1 of the menu over a data/pdfs directory that holds some documents
InitEmbed ==
  /\ workers = "one"
  /\ now = 0
  /\ indexFile = NoFile
  /\ \E D \in SUBSET ShelfUploads :
       /\ Cardinality(D) <= MaxFiles
       /\ \E names \in Orders(D) :
            blobs = [f \in {<<0, k>> : k \in 1..Cardinality(D)} |-> names[f[2]]]
  /\ chunkFiles = <<>>
  /\ pc = [p \in Procs |-> "idle"]
  /\ pdf_bytes = [p \in Procs |-> NoBytes]
  /\ source = [p \in Procs |-> "None"]
  /\ checksum = [p \in Procs |-> NoHash]
  /\ index = [p \in Procs |-> <<>>]
  /\ fname = [p \in Procs |-> NoName]
  /\ text = [p \in Procs |-> ""]
  /\ meta = [p \in Procs |-> <<>>]
  /\ needs_ocr = [p \in Procs |-> FALSE]
  /\ language = [p \in Procs |-> "unknown"]
  /\ chunks = [p \in Procs |-> <<>>]
  /\ i = [p \in Procs |-> 0]
  /\ result = [p \in Procs |-> NoResult]
  /\ calls = 0
  /\ did = [p \in Procs |-> {}]
  /\ entryBlobs = [p \in Procs |-> <<>>]
  /\ entryLedger = [p \in Procs |-> <<>>]
  /\ lastCall = [pdf |-> NoBytes, status |-> "none", name |-> NoName]
  /\ RagIdle
  /\ embPc = "idle"
  /\ pdf_files = <<>>
  /\ total_chunks = 0
  /\ runs = 0
  /\ adds = {}
  /\ chunker = NoChunker
  /\ fetch = NoFetch

\* ingest_pdfs begins: the directory is listed; an empty one ends the run
IngestStart ==
  /\ embPc \in {"idle", "ended", "failed"}
  /\ runs < MaxRuns
  /\ runs' = runs + 1
  /\ total_chunks' = 0
  /\ \E q \in Orders(DOMAIN blobs) :
       /\ pdf_files' = q
       /\ embPc' = IF q = <<>> THEN "ended" ELSE "loop"
  /\ UNCHANGED << adds >>
  /\ UNCHANGED << ingestVars, ragVars, chunkerVars, fetchVars >>

\* the entries collection.add(ids) leaves in the collection
AddInto(coll, ids, run, o) ==
  coll \cup {[id |-> x, gen |-> run] :
               x \in {y \in ids : o = "stored_again" \/ y \notin {e.id : e \in coll}}}

\* one iteration of the loop over pdf_files: read, chunk, embed, add
ProcessPdf ==
  /\ embPc = "loop"
  /\ pdf_files # <<>>
  /\ LET pdf == Head(pdf_files)
         b == blobs[pdf]
         ids == {<<pdf, idx>> : idx \in 0..(Len(ShelfChunks[b]) - 1)}
     IN IF ~Readable(b.body)
        THEN /\ embPc' = "failed"
             /\ UNCHANGED << pdf_files, total_chunks, adds, collection >>
        ELSE IF ShelfText[b] = ""
        THEN /\ pdf_files' = Tail(pdf_files)
             /\ embPc' = IF Tail(pdf_files) = <<>> THEN "ended" ELSE "loop"
             /\ UNCHANGED << total_chunks, adds, collection >>
        ELSE /\ adds' = adds \cup {[run |-> runs, id |-> x, held |-> x \in IndexedIds] :
                                     x \in ids}
             /\ \E o \in AddOutcomes :
                  IF o = "raise" /\ ids \cap IndexedIds # {}
                  THEN /\ embPc' = "failed"
                       /\ UNCHANGED << pdf_files, total_chunks, collection >>
                  ELSE /\ collection' = AddInto(collection, ids, runs, o)
                       /\ total_chunks' = total_chunks + Len(ShelfChunks[b])
                       /\ pdf_files' = Tail(pdf_files)
                       /\ embPc' = IF Tail(pdf_files) = <<>> THEN "ended" ELSE "loop"
  /\ UNCHANGED << runs >>
  /\ UNCHANGED << ingestVars, chunkerVars, fetchVars >>
  /\ UNCHANGED << askPc, asked, question, retrieved_chunks, response, console, history,
                  ports, raised >>

\* ------------------------------------------------------ a call of chunk_text
MaxIter == 14

\* the arguments chunk_text is called with; overlap is given in percent
ChunkTexts == { "", " \n", "a", " a bc\td  e\n", "a b c d e f g h i j k l" }
Targets == {1, 2, 3, 5, 10}
OverlapPcts == {-50, 0, 20, 50, 80, 90, 99, 100, 150}

\* words[a:b] for any integers a and b
PySlice(words, a, b) ==
  LET n == Len(words)
      lo == IF a < 0 THEN (IF a + n < 0 THEN 0 ELSE a + n) ELSE Min2(a, n)
      hi == IF b < 0 THEN (IF b + n < 0 THEN 0 ELSE b + n) ELSE Min2(b, n)
  IN SubSeq(words, lo + 1, hi)

InitChunk ==
  /\ InitIngest("one")
  /\ RagIdle
  /\ EmbedIdle
  /\ fetch = NoFetch
  /\ chunker = [NoChunker EXCEPT !.pc = "idle"]

\* chunk_text(txt, target_words, overlap) is entered: an empty text returns
\* at once, any other text is split and the step is computed
Enter(txt, t, o, again, was) ==
  IF txt = ""
  THEN [pc |-> "returned", text |-> txt, target_words |-> t, overlap |-> o,
        words |-> <<>>, step |-> 0, i |-> 0, chunks |-> <<>>,
        rerun |-> again, first |-> was]
  ELSE [pc |-> "loop", text |-> txt, target_words |-> t, overlap |-> o,
        words |-> split(txt), step |-> StepOf(t, o), i |-> 0, chunks |-> <<>>,
        rerun |-> again, first |-> was]

ChunkCall ==
  /\ chunker.pc = "idle"
  /\ \E txt \in ChunkTexts, t \in Targets, o \in OverlapPcts :
       chunker' = Enter(txt, t, o, FALSE, <<>>)
  /\ UNCHANGED << ingestVars, ragVars, embedVars, fetchVars >>

\* variant: the window is cut at the step, so that windows do not overlap
ChunkIterNoOverlap ==
  /\ chunker.pc = "loop"
  /\ chunker.i < Len(chunker.words)
  /\ Len(chunker.chunks) < MaxIter
  /\ chunker' = [chunker EXCEPT
                   !.chunks = Append(@, join(" ", PySlice(chunker.words, chunker.i,
                                                          chunker.i + chunker.step))),
                   !.i = @ + chunker.step]
  /\ UNCHANGED << ingestVars, ragVars, embedVars, fetchVars >>

\* one iteration of the while loop
ChunkIter ==
  /\ chunker.pc = "loop"
  /\ chunker.i < Len(chunker.words)
  /\ Len(chunker.chunks) < MaxIter
  /\ chunker' = [chunker EXCEPT
                   !.chunks = Append(@, join(" ", PySlice(chunker.words, chunker.i,
                                                          chunker.i + chunker.target_words))),
                   !.i = @ + chunker.step]
  /\ UNCHANGED << ingestVars, ragVars, embedVars, fetchVars >>

\* the loop condition fails: return chunks
ChunkReturn ==
  /\ chunker.pc = "loop"
  /\ ~(chunker.i < Len(chunker.words))
  /\ chunker' = [chunker EXCEPT !.pc = "returned"]
  /\ UNCHANGED << ingestVars, ragVars, embedVars, fetchVars >>

\* the same call is made once more
ChunkAgain ==
  /\ chunker.pc = "returned"
  /\ ~chunker.rerun
  /\ chunker' = Enter(chunker.text, chunker.target_words, chunker.overlap, TRUE,
                      chunker.chunks)
  /\ UNCHANGED << ingestVars, ragVars, embedVars, fetchVars >>

\* ------------------------------------------------------------- POST /ingest
\* Retry(total=3, status_forcelist=[429, 500, 502, 503, 504])
RetryTotal == 3
status_forcelist == {429, 500, 502, 503, 504}

\* what one attempt of session.get may meet: a response with a status, or no
\* response at all (connection error, timeout), written 0
Responses == {0, 200, 404} \cup status_forcelist

\* the attempts urllib3 repeats while the budget lasts: those without a
\* response and those with a status of the forcelist
Retryable == {0} \cup status_forcelist

\* the URLs callers submit and what each serves
Urls == {"http://sansad.example/notice.pdf", "http://sansad.example/scan.pdf"}
Served(url) == IF url = "http://sansad.example/notice.pdf"
               THEN [body |-> "notice", len |-> 700]
               ELSE [body |-> "scan", len |-> 52000]

InitFetch ==
  /\ InitIngest("one")
  /\ RagIdle
  /\ EmbedIdle
  /\ chunker = NoChunker
  /\ fetch = [NoFetch EXCEPT !.pc = "idle"]

\* the endpoint ingest(req) is entered and calls download_pdf(req.pdf_url)
IngestUrl(p) ==
  /\ fetch.pc \in {"idle", "ok", "failed"}
  /\ \A q \in Procs : pc[q] = "idle"
  /\ \A q \in Procs : p <= q
  /\ calls < MaxCalls
  /\ calls' = calls + 1
  /\ \E url \in Urls, s \in Sources :
       /\ fetch' = [pc |-> "get", url |-> url, attempts |-> 0, last |-> 0]
       /\ source' = [source EXCEPT ![p] = s]
  /\ pc' = [pc EXCEPT ![p] = "fetch"]
  /\ entryBlobs' = [entryBlobs EXCEPT ![p] = blobs]
  /\ entryLedger' = [entryLedger EXCEPT ![p] = Ledger]
  /\ UNCHANGED << workers, now, indexFile, blobs, chunkFiles, pdf_bytes, checksum, index,
                  fname, derived, i, result, did, lastCall >>
  /\ UNCHANGED << ragVars, embedVars, chunkerVars >>

\* variant: a failed attempt is repeated once more than the budget allows,
\* and after any error status
FetchAttemptEager(p) ==
  /\ pc[p] = "fetch"
  /\ fetch.pc = "get"
  /\ \E resp \in Responses :
       IF resp # 200 /\ fetch.attempts < RetryTotal + 1
       THEN /\ fetch' = [fetch EXCEPT !.attempts = @ + 1, !.last = resp]
            /\ UNCHANGED << pc, pdf_bytes, result >>
       ELSE IF resp = 200
       THEN /\ fetch' = [fetch EXCEPT !.attempts = @ + 1, !.last = resp, !.pc = "ok"]
            /\ pdf_bytes' = [pdf_bytes EXCEPT ![p] = Served(fetch.url)]
            /\ pc' = [pc EXCEPT ![p] = "guard"]
            /\ UNCHANGED result
       ELSE /\ fetch' = [fetch EXCEPT !.attempts = @ + 1, !.last = resp, !.pc = "failed"]
            /\ result' = [result EXCEPT ![p] = [status |-> "error", code |-> 400]]
            /\ pc' = [pc EXCEPT ![p] = "done"]
            /\ UNCHANGED pdf_bytes
  /\ UNCHANGED << workers, now, indexFile, blobs, chunkFiles, source, checksum, index,
                  fname, derived, i, calls, did, entryBlobs, entryLedger, lastCall >>
  /\ UNCHANGED << ragVars, embedVars, chunkerVars >>

\* one attempt of session.get: an attempt that may be retried is repeated
\* while the budget lasts; otherwise download_pdf returns resp.content, or an
\* exception (retries exhausted, raise_for_status) becomes HTTPException(400)
FetchAttempt(p) ==
  /\ pc[p] = "fetch"
  /\ fetch.pc = "get"
  /\ \E resp \in Responses :
       IF resp \in Retryable /\ fetch.attempts < RetryTotal
       THEN /\ fetch' = [fetch EXCEPT !.attempts = @ + 1, !.last = resp]
            /\ UNCHANGED << pc, pdf_bytes, result >>
       ELSE IF resp = 200
       THEN /\ fetch' = [fetch EXCEPT !.attempts = @ + 1, !.last = resp, !.pc = "ok"]
            /\ pdf_bytes' = [pdf_bytes EXCEPT ![p] = Served(fetch.url)]
            /\ pc' = [pc EXCEPT ![p] = "guard"]
            /\ UNCHANGED result
       ELSE /\ fetch' = [fetch EXCEPT !.attempts = @ + 1, !.last = resp, !.pc = "failed"]
            /\ result' = [result EXCEPT ![p] = [status |-> "error", code |-> 400]]
            /\ pc' = [pc EXCEPT ![p] = "done"]
            /\ UNCHANGED pdf_bytes
  /\ UNCHANGED << workers, now, indexFile, blobs, chunkFiles, source, checksum, index,
                  fname, derived, i, calls, did, entryBlobs, entryLedger, lastCall >>
  /\ UNCHANGED << ragVars, embedVars, chunkerVars >>

\* ------------------------------------------------------------ specifications
Step(p) ==
  \/ Call(p) \/ SizeGuard(p) \/ LoadIndex(p) \/ DuplicateCheck(p) \/ WriteBlob(p)
  \/ Extract(p) \/ Chunk(p) \/ WriteChunk(p) \/ SaveIndexOpen(p) \/ SaveIndexDump(p) \/ Return(p)

\* several worker processes, any of which may be killed
Init == InitIngest("many") /\ RagIdle /\ SideIdle
Next == Tick \/ \E p \in Procs : Step(p) \/ Crash(p)
Spec == Init /\ [][Next]_vars

\* one event loop: a call runs to its end before the next begins
InitSerial == InitIngest("one") /\ RagIdle /\ SideIdle
NextSerial == Tick \/ \E p \in Procs : Step(p)
SpecSerial == InitSerial /\ [][NextSerial]_vars

\* requests to POST /ingest, served one at a time
NextFetch ==
  \/ Tick
  \/ \E p \in Procs :
       \/ IngestUrl(p) \/ FetchAttempt(p) \/ SizeGuard(p) \/ LoadIndex(p)
       \/ DuplicateCheck(p) \/ WriteBlob(p) \/ Extract(p) \/ Chunk(p) \/ WriteChunk(p)
       \/ SaveIndexOpen(p) \/ SaveIndexDump(p) \/ Return(p)
SpecFetch == InitFetch /\ [][NextFetch]_vars

\* calls of chunk_text; the loop goes on while its condition holds
NextChunk == ChunkCall \/ ChunkIter \/ ChunkReturn \/ ChunkAgain
SpecChunk == InitChunk /\ [][NextChunk]_vars
SpecChunkFair == SpecChunk /\ WF_vars(ChunkIter) /\ WF_vars(ChunkReturn) /\ WF_vars(ChunkAgain)

\* the embedding runs
NextEmbed == IngestStart \/ ProcessPdf
SpecEmbed == InitEmbed /\ [][NextEmbed]_vars

\* the question loop
NextAsk == AskStart \/ ReadQuestion \/ EmbedQuestion \/ QueryIndex \/ Generate \/ PrintAnswer
SpecAsk == InitAsk /\ [][NextAsk]_vars

\* ------------------------------------------------------------------- claims
InConsole(k, l) == \E j \in 1..Len(console) : console[j] = [n |-> k, line |-> l]
Made(k, prt) == \E e \in ports : e.n = k /\ e.port = prt
StoredNames == {Ledger[h] : h \in DOMAIN Ledger}

\* the words of each extracted text
WordsOf == [t \in DOMAIN DefaultChunks |-> split(t)]

\* the uploads whose extraction raises or finds no text on any page
Textless ==
  {u \in Uploads : \/ ~Readable(u.body)
                   \/ \A k \in 1..Len(PagesOf(u.body)) : PagesOf(u.body)[k].none}

\* for a text of 1300 words: the words from offset 320 * (k - 1), at most 400
\* of them, joined by single spaces
ExpectedWindow ==
  [t \in {x \in DOMAIN WordsOf : Len(WordsOf[x]) = 1300} |->
     [k \in 1..5 |-> join(" ", SubSeq(WordsOf[t], 320 * (k - 1) + 1,
                                      Min2(320 * (k - 1) + 400, 1300)))]]
ExpectedWindowWords ==
  [t \in DOMAIN ExpectedWindow |-> [k \in 1..5 |-> Len(split(ExpectedWindow[t][k]))]]

\* C1: while calls run one at a time, a call with bytes within the size limit
\* whose hash was not in the ledger returns "ingested", and a call with the
\* same bytes right after a call that returned "ingested" returns "duplicate"
\* with existing_pdf equal to the first call's pdf_filename and leaves the
\* stored blobs as they were when it began.
C1_Idempotent ==
  \A p \in Procs : pc[p] = "done" =>
    /\ (pdf_bytes[p].len <= MaxPdfBytes
        /\ sha256_bytes(pdf_bytes[p]) \notin DOMAIN entryLedger[p])
         => result[p].status = "ingested"
    /\ (lastCall.status = "ingested" /\ lastCall.pdf = pdf_bytes[p])
         => /\ result[p].status = "duplicate"
            /\ result[p].existing_pdf = lastCall.name
            /\ blobs = entryBlobs[p]

C1_Witness ==
  \E p \in Procs :
    /\ pc[p] = "done"
    /\ lastCall.status = "ingested"
    /\ lastCall.pdf = pdf_bytes[p]
    /\ result[p].status = "duplicate"
    /\ result[p].existing_pdf = lastCall.name

\* C2: two callers that are ingesting the same content at the same time have
\* never both stored a blob for it.
C2_OneStoragePerContent ==
  \A p, q \in Procs :
    (p # q /\ checksum[p] # NoHash /\ checksum[p] = checksum[q])
      => ~("blob" \in did[p] /\ "blob" \in did[q])

\* C3: every storage name recorded in the ledger names a stored blob, also
\* after a caller was killed at any step.
C3_LedgerEntryHasBlob == \A h \in DOMAIN Ledger : Ledger[h] \in DOMAIN blobs

C3_Witness ==
  /\ DOMAIN Ledger # {}
  /\ \A p \in Procs : pc[p] = "idle"
  /\ \E f \in DOMAIN blobs : f \notin StoredNames

\* C4: while calls run one at a time, a call whose content hash was in the
\* ledger when it began returns "duplicate" with the stored name, for any
\* source label, and has written no blob, no chunk preview and no ledger, nor
\* extracted or chunked anything.
C4_DuplicateChangesNothing ==
  \A p \in Procs :
    (/\ pc[p] = "done"
     /\ pdf_bytes[p].len <= MaxPdfBytes
     /\ sha256_bytes(pdf_bytes[p]) \in DOMAIN entryLedger[p])
      => /\ result[p].status = "duplicate"
         /\ result[p].existing_pdf = entryLedger[p][sha256_bytes(pdf_bytes[p])]
         /\ result[p].sha256 = sha256_bytes(pdf_bytes[p])
         /\ did[p] \subseteq {"hash", "load"}
         /\ blobs = entryBlobs[p]
         /\ Ledger = entryLedger[p]

C4_Witness ==
  \E p \in Procs :
    /\ pc[p] = "done"
    /\ result[p].status = "duplicate"
    /\ source[p] = "rajya_sabha"
    /\ sha256_bytes(pdf_bytes[p]) \in DOMAIN entryLedger[p]

\* C5: a call with more than 25 MB raises 413 before it hashes, reads or
\* writes anything, so blobs and ledger are as they were; a call with exactly
\* 25 MB is not rejected.
C5_SizeGuard ==
  \A p \in Procs : pc[p] = "done" =>
    /\ pdf_bytes[p].len > MaxPdfBytes
         => /\ result[p] = [status |-> "error", code |-> 413]
            /\ did[p] = {}
            /\ blobs = entryBlobs[p]
            /\ Ledger = entryLedger[p]
    /\ pdf_bytes[p].len = MaxPdfBytes => result[p].status \in {"ingested", "duplicate"}

C5_Witness ==
  \E p \in Procs :
    /\ pc[p] = "done"
    /\ pdf_bytes[p].len = MaxPdfBytes
    /\ result[p].status = "ingested"
    /\ lastCall.pdf.len = MaxPdfBytes + 1
    /\ lastCall.status = "error"

\* C6 as stated: a new document of 1300 words is cut into exactly 4 chunks.
C6_FourChunks ==
  \A p \in Procs :
    (pc[p] = "done" /\ result[p].status = "ingested" /\ Len(WordsOf[text[p]]) = 1300)
      => result[p].num_chunks = 4

\* C6 as amended: a new document of 1300 words is cut into exactly 5 chunks,
\* the windows of at most 400 words that start at word offsets 0, 320, 640,
\* 960 and 1280; the 4th (340 words) and the 5th (20 words) are shorter than
\* 400 words; needs_ocr is false.
C6_FiveChunks ==
  \A p \in Procs :
    (pc[p] = "done" /\ result[p].status = "ingested" /\ Len(WordsOf[text[p]]) = 1300)
      => /\ result[p].num_chunks = 5
         /\ Len(result[p].chunk_ids) = 5
         /\ \A k \in 1..5 :
              /\ result[p].chunk_ids[k] \in DOMAIN chunkFiles
              /\ chunkFiles[result[p].chunk_ids[k]] = ExpectedWindow[text[p]][k]
         /\ ExpectedWindowWords[text[p]] = <<400, 400, 400, 340, 20>>
         /\ result[p].needs_ocr = FALSE

C6_Witness ==
  \E p \in Procs :
    /\ pc[p] = "done"
    /\ result[p].status = "ingested"
    /\ Len(WordsOf[text[p]]) = 1300
    /\ result[p].num_chunks = 5

\* C7: the generative model is called only for a question whose query
\* returned documents; an empty collection ends with the "no data" line, a
\* query returning nothing ends with the "no context" line, and neither calls
\* the generative model.
C7_Grounded ==
  /\ \A e \in ports : e.port = "generate" =>
       [n |-> e.n, port |-> "query", out |-> "documents"] \in ports
  /\ collection = {} =>
       /\ ports = {}
       /\ askPc = "ended" => console = << [n |-> 0, line |-> "no_data"] >>
  /\ \A e \in ports : (e.port = "query" /\ e.out = "nothing") =>
       /\ InConsole(e.n, "no_context")
       /\ ~Made(e.n, "generate")

C7_Witness ==
  \E k, m \in 1..MaxQuestions :
    /\ [n |-> k, port |-> "query", out |-> "nothing"] \in ports
    /\ InConsole(k, "no_context")
    /\ Made(m, "generate")

\* C8: no port is called for an empty question.
C8_EmptyQuestionRejected == \A e \in ports : history[e.n] # ""

\* C9: when generate_content raises or returns a response without text,
\* ask_question ends with that exception: no answer and no "no context" line
\* is printed for the question.
C9_GenerationFailureSurfaces ==
  \A e \in ports :
    (e.port = "generate" /\ e.out \in {"raise", "no_text"} /\ askPc # "print")
      => /\ askPc = "failed"
         /\ raised = (IF e.out = "raise" THEN "generate_content" ELSE "response.text")
         /\ ~InConsole(e.n, "answer")
         /\ ~InConsole(e.n, "no_context")

C9_Witness ==
  /\ askPc = "failed"
  /\ raised = "generate_content"
  /\ \E e \in ports : e.port = "generate" /\ e.out = "raise"

\* C10: while calls run one at a time, a new document whose text extraction
\* raises, or finds no text on any page, is still ingested: status
\* "ingested", no chunks, needs_ocr true, next_step "ocr_required", and its
\* blob and its ledger entry are stored.
C10_ExtractionFailureIngests ==
  \A p \in Procs :
    (/\ pc[p] = "done"
     /\ pdf_bytes[p].len <= MaxPdfBytes
     /\ sha256_bytes(pdf_bytes[p]) \notin DOMAIN entryLedger[p]
     /\ pdf_bytes[p] \in Textless)
      => /\ result[p].status = "ingested"
         /\ result[p].num_chunks = 0
         /\ result[p].chunk_ids = <<>>
         /\ result[p].needs_ocr = TRUE
         /\ result[p].next_step = "ocr_required"
         /\ result[p].pdf_filename \in DOMAIN blobs
         /\ blobs[result[p].pdf_filename] = pdf_bytes[p]
         /\ sha256_bytes(pdf_bytes[p]) \in DOMAIN Ledger
         /\ Ledger[sha256_bytes(pdf_bytes[p])] = result[p].pdf_filename

C10_Witness ==
  \E p \in Procs :
    /\ pc[p] = "done"
    /\ ~Readable(pdf_bytes[p].body)
    /\ result[p].status = "ingested"
    /\ result[p].needs_ocr = TRUE

\* C11: no id is passed to collection.add while the collection holds it, and
\* the collection never holds two entries with the same id.
C11_EmbedIdempotent ==
  /\ \A a \in adds : ~a.held
  /\ \A e1, e2 \in collection : e1.id = e2.id => e1 = e2

\* C12: while calls run one at a time, the summary of an ingested document
\* lists exactly num_chunks chunk ids, one per chunk of its text; the k-th
\* (from 0) is the id made of the document's storage name and the ordinal k,
\* the ids are pairwise distinct, and under each id the preview of the k-th
\* chunk is stored.
C12_ChunkAddressing ==
  \A p \in Procs :
    (pc[p] = "done" /\ result[p].status = "ingested")
      => LET ids == result[p].chunk_ids
         IN /\ Len(ids) = result[p].num_chunks
            /\ result[p].num_chunks = Len(DefaultChunks[text[p]])
            /\ \A k \in 1..Len(ids) :
                 /\ ids[k] = <<result[p].pdf_filename, k - 1>>
                 /\ ids[k] \in DOMAIN chunkFiles
                 /\ chunkFiles[ids[k]] = Prefix(DefaultChunks[text[p]][k], PreviewChars)
            /\ \A k, l \in 1..Len(ids) : k # l => ids[k] # ids[l]

C12_Witness ==
  \E p \in Procs :
    /\ pc[p] = "done"
    /\ result[p].status = "ingested"
    /\ result[p].num_chunks >= 2
    /\ result[p].chunk_ids[2] \in DOMAIN chunkFiles

\* the words of a chunk
ChunkWords(k) == split(chunker.chunks[k])

\* every word of the text occurs in a chunk
Covered ==
  \A j \in 1..Len(chunker.words) :
    \E k \in 1..Len(chunker.chunks) :
      \E l \in 1..Len(ChunkWords(k)) : ChunkWords(k)[l] = chunker.words[j]

\* C13: chunk_text of the empty text returns the empty list, and a call with
\* a non-empty text, target_words >= 1 and an overlap between 0 and 1 that has
\* entered the loop returns, with every word of the text in some chunk.
C13_TerminatesAndCovers ==
  /\ [](chunker.pc = "returned" /\ chunker.text = "" => chunker.chunks = <<>>)
  /\ (chunker.pc = "loop" /\ chunker.target_words >= 1 /\ chunker.overlap \in 0..100)
       ~> (chunker.pc = "returned" /\ Covered)

C13_Witness ==
  /\ chunker.pc = "returned"
  /\ chunker.target_words = 10
  /\ chunker.overlap = 99
  /\ IntOfProduct(10, 99) = 0
  /\ Len(chunker.words) = 12
  /\ Len(chunker.chunks) = 2
  /\ Covered

\* C14: inside the loop of chunk_text the step is at least 1, so that the
\* offset grows with every iteration.
C14_StrideAtLeastOne == chunker.pc = "loop" => chunker.step >= 1

\* C15: what chunk_text returns for a text of n words is, in order, one chunk
\* per offset 0, step, 2*step, ... below n; the k-th chunk (from 0) is the
\* words k*step .. min(k*step + target_words, n) - 1 joined by single spaces;
\* after a chunk shorter than target_words only shorter ones follow; and the
\* same call made again returns the same sequence.
C15_WindowLayout ==
  chunker.pc = "returned" =>
    LET n == Len(chunker.words)
        t == chunker.target_words
        s == chunker.step
        out == chunker.chunks
    IN /\ Len(out) = Cardinality({k \in 0..n : k * s < n})
       /\ \A k \in 1..Len(out) :
            /\ (k - 1) * s < n
            /\ out[k] = join(" ", SubSeq(chunker.words, (k - 1) * s + 1,
                                         Min2((k - 1) * s + t, n)))
            /\ Len(ChunkWords(k)) <= t
            /\ Len(ChunkWords(k)) < t =>
                 \A l \in k..Len(out) : Len(ChunkWords(l)) < t
       /\ chunker.rerun => out = chunker.first

C15_Witness ==
  /\ chunker.pc = "returned"
  /\ chunker.rerun
  /\ chunker.step < chunker.target_words
  /\ Len(chunker.chunks) >= 3
  /\ Len(ChunkWords(1)) = chunker.target_words
  /\ Len(ChunkWords(Len(chunker.chunks))) < chunker.target_words

\* C16: the ledger entry written by an ingestion is still in the ledger, with
\* the same storage name, while that ingestion hands back its summary,
\* whatever ingestions of other documents have saved meanwhile.
C16_LedgerEntriesPermanent ==
  \A p \in Procs :
    (/\ pc[p] = "done"
     /\ result[p].status = "ingested"
     /\ indexFile.kind = "json"
     /\ \A q \in Procs \ {p} : checksum[q] # checksum[p])
      => /\ checksum[p] \in DOMAIN Ledger
         /\ Ledger[checksum[p]] = fname[p]

\* C17: the ledger never maps two different content hashes to the same
\* storage name, and every blob a ledger entry names holds the bytes with
\* that entry's hash.
C17_StorageNamesUnique ==
  /\ \A h1, h2 \in DOMAIN Ledger : h1 # h2 => Ledger[h1] # Ledger[h2]
  /\ \A h \in DOMAIN Ledger :
       Ledger[h] \in DOMAIN blobs => sha256_bytes(blobs[Ledger[h]]) = h

C19_OcrFlag ==
  \A p \in Procs :
    (pc[p] = "done" /\ result[p].status = "ingested")
      => /\ result[p].needs_ocr = (Len(text[p]) < 100)
         /\ result[p].next_step = (IF result[p].needs_ocr THEN "ocr_required"
                                   ELSE "ready_for_embedding")
         /\ WordsOf[text[p]] # <<>> => result[p].num_chunks >= 1

C19_Witness ==
  \E p \in Procs :
    /\ pc[p] = "done"
    /\ result[p].status = "ingested"
    /\ Len(text[p]) = 99
    /\ result[p].needs_ocr = TRUE
    /\ result[p].next_step = "ocr_required"
    /\ result[p].num_chunks >= 1
    /\ lastCall.status = "ingested"
    /\ lastCall.pdf.body = "memo"

====
